---- MODULE Spec2Model ----
(***************************************************************************)
(* PlainSQL (pygraphdb/table_sql.py): a directed weighted graph kept in    *)
(* two relational tables, table_edges (primary, indexed) and new_edges     *)
(* (staging), driven through one SQLAlchemy session.                       *)
(*                                                                         *)
(* The store is modelled as the committed content of the two tables plus   *)
(* the session's view of them (committed rows with the session's pending,  *)
(* uncommitted changes applied).  Every query of PlainSQL goes through the *)
(* session and therefore reads the view; commit() makes the view the       *)
(* committed content, rollback() resets the view to the committed content. *)
(* A commit the storage refuses raises, undoes the transaction and leaves  *)
(* the session inactive: until rollback() is called on it, every use of    *)
(* the session raises.                                                     *)
(***************************************************************************)
EXTENDS Integers, Sequences, FiniteSets, Bags, TLC

\* ---------------------------------------------------------------- bounds
MaxId == 2
MaxVertex == 2
MaxWeight == 2
MaxBatch == 2

IDs == 1..MaxId
Vertices == 1..MaxVertex
Weights == 1..MaxWeight

\* ------------------------------------------------------------------ rows
\* A row of table_edges / new_edges (attributes_json is never written by
\* any operation of PlainSQL and is left out).
Rows == [_id : IDs, v_from : Vertices, v_to : Vertices, weight : Weights]

Row(i, f, t, w) == [_id |-> i, v_from |-> f, v_to |-> t, weight |-> w]

\* The records a caller can hand to the store.  cls is the Python class of
\* the object: an ORM instance of EdgeSQL or EdgeNew, or a plain mapping
\* ("dict") whose keys are the set `keys`.  A mapping that lacks one of
\* v_from, v_to, weight is malformed.
EdgeSQLs == [cls : {"EdgeSQL"}, keys : {{"_id", "v_from", "v_to", "weight"}},
             _id : IDs, v_from : Vertices, v_to : Vertices, weight : Weights]

EdgeNews == [cls : {"EdgeNew"}, keys : {{"_id", "v_from", "v_to", "weight"}},
             _id : {1}, v_from : {1}, v_to : {MaxVertex}, weight : {1}]

DictsWithId == [cls : {"dict"}, keys : {{"_id", "v_from", "v_to", "weight"}},
                _id : IDs, v_from : Vertices, v_to : Vertices, weight : Weights]

DictsNoId == [cls : {"dict"}, keys : {{"v_from", "v_to", "weight"}},
              _id : {0}, v_from : Vertices, v_to : Vertices, weight : Weights]

Malformed == [cls : {"dict"}, keys : {{"v_from", "v_to"}},
              _id : {0}, v_from : {1}, v_to : {MaxVertex}, weight : {0}]

IsORM(e) == e.cls \in {"EdgeSQL", "EdgeNew"}

WellFormed(e) == {"v_from", "v_to", "weight"} \subseteq e.keys

\* ----------------------------------------------------------------- state
VARIABLES
    table_edges,   \* committed rows of table_edges
    new_edges,     \* committed rows of new_edges
    sess_edges,    \* the session's view of table_edges
    sess_new,      \* the session's view of new_edges
    sess_inactive, \* the session waits for a rollback after a failed commit
    op,            \* the operation that has just finished, or "idle"
    arg,           \* its argument
    fault,         \* the storage failure injected into it
    ret,           \* its outcome: [status, value]
    printed,       \* the exception it printed on standard output, or "none"
    pre,           \* the store as it was when the operation was called
    pragmas        \* how many times the pragmas were applied to the storage

vars == <<table_edges, new_edges, sess_edges, sess_new, sess_inactive,
          op, arg, fault, ret, printed, pre, pragmas>>

\* The store as one value: committed tables (db_e, db_n) and session view
\* (e, n).
Store == [db_e |-> table_edges, db_n |-> new_edges, e |-> sess_edges, n |-> sess_new,
          inactive |-> sess_inactive]

Returned(v) == [status |-> "returned", value |-> v]
Raised(x) == [status |-> "raised", value |-> x]

\* ------------------------------------------------------- session, tables
\* Session.merge: upsert by primary key into the table of the object's
\* class.
merge_row(T, r) == {x \in T : x._id # r._id} \cup {r}

\* The identifier of an object built without one (its _id is 0, Python's
\* None): the store assigns an identifier no row of the table uses.
AssignId(T) ==
    LET used == {x._id : x \in T} IN
    CHOOSE i \in 1..(Cardinality(used) + 1) : i \notin used

merge(S, o) ==
    LET T == IF o.cls = "EdgeNew" THEN S.n ELSE S.e
        i == IF o._id = 0 THEN AssignId(T) ELSE o._id
        r == Row(i, o.v_from, o.v_to, o.weight)
    IN  IF o.cls = "EdgeNew"
        THEN [S EXCEPT !.n = merge_row(S.n, r)]
        ELSE [S EXCEPT !.e = merge_row(S.e, r)]

\* Session.commit, when it succeeds.
commit(S) == [S EXCEPT !.db_e = S.e, !.db_n = S.n]

\* Session.rollback: the pending changes are dropped and the session is
\* usable again.
rollback(S) == [S EXCEPT !.e = S.db_e, !.n = S.db_n, !.inactive = FALSE]

\* The storage failure injected into one call: none, or the at-th commit
\* of the call is refused by the storage (lock contention, I/O error).
NoFault == [commit |-> "ok", at |-> 0]

Faults(n) == {NoFault} \cup [commit : {"refused"}, at : 1..n]

\* The at-th commit of a call under the injected failure f.  On an
\* inactive session commit() raises at once.  A refused commit raises,
\* the transaction is undone and the session is left inactive.
do_commit(S, f, at) ==
    IF S.inactive THEN [S |-> S, ok |-> FALSE, error |-> "InvalidRequestError"]
    ELSE IF f.commit = "refused" /\ f.at = at
    THEN [S |-> [S EXCEPT !.e = S.db_e, !.n = S.db_n, !.inactive = TRUE],
          ok |-> FALSE, error |-> "StorageError"]
    ELSE [S |-> commit(S), ok |-> TRUE, error |-> "none"]

EmptyStore == [db_e |-> {}, db_n |-> {}, e |-> {}, n |-> {}, inactive |-> FALSE]

\* __init__: create_all on a new database leaves both tables empty.
Init ==
    /\ table_edges = {}
    /\ new_edges = {}
    /\ sess_edges = {}
    /\ sess_new = {}
    /\ sess_inactive = FALSE
    /\ op = "idle"
    /\ arg = <<>>
    /\ fault = NoFault
    /\ ret = Returned("None")
    /\ printed = "none"
    /\ pre = EmptyStore
    /\ pragmas = 0

\* The outcome of an operation: the store afterwards and what the caller
\* gets.
Out(S, r) == [S |-> S, ret |-> r, printed |-> "none"]

\* The outcome of the except branch of insert_dump: print(e), rollback,
\* return 0.
Caught(S, exc) == [S |-> rollback(S), ret |-> Returned(0), printed |-> exc]

Apply(name, a, f, out) ==
    /\ op = "idle"
    /\ pre' = Store
    /\ op' = name
    /\ arg' = a
    /\ fault' = f
    /\ ret' = out.ret
    /\ printed' = out.printed
    /\ table_edges' = out.S.db_e
    /\ new_edges' = out.S.db_n
    /\ sess_edges' = out.S.e
    /\ sess_new' = out.S.n
    /\ sess_inactive' = out.S.inactive
    /\ pragmas' = pragmas
    \* identifiers are capped at MaxId
    /\ out.S.e \subseteq Rows
    /\ out.S.n \subseteq Rows

\* ----------------------------------------------------------- conversion
\* _to_sql: an ORM instance is returned as it is; anything else is read
\* through e['v_from'], e['v_to'], e['weight'] (KeyError when one is
\* missing) and rebuilt as an e_type without an identifier.
to_sql(e, e_type) ==
    IF IsORM(e) THEN [ok |-> TRUE, obj |-> e]
    ELSE IF ~WellFormed(e) THEN [ok |-> FALSE, obj |-> e]
    ELSE [ok |-> TRUE,
          obj |-> [cls |-> e_type, keys |-> {"_id", "v_from", "v_to", "weight"},
                   _id |-> 0, v_from |-> e.v_from, v_to |-> e.v_to,
                   weight |-> e.weight]]

\* ---------------------------------------------------------------- reads
Touches(r, v) == r.v_from = v \/ r.v_to = v

\* find_edge with or_ of the two directions in place of and_ of the two
\* endpoints.
find_edge_either(S, v_from, v_to) ==
    LET m == {r \in S.e : \/ r.v_from = v_from /\ r.v_to = v_to
                          \/ r.v_from = v_to /\ r.v_to = v_from}
    IN  IF m = {} THEN {{}} ELSE {{r} : r \in m}

\* find_edge: .first() of the rows with the directed endpoints; without an
\* ORDER BY any matching row may come first.  The result is the set of
\* values the call may return; None is the empty set of rows.
find_edge(S, v_from, v_to) ==
    LET m == {r \in S.e : r.v_from = v_from /\ r.v_to = v_to}
    IN  IF m = {} THEN {{}} ELSE {{r} : r \in m}

find_edge_or_inv(S, v1, v2) ==
    {r \in S.e : \/ r.v_from = v1 /\ r.v_to = v2
                 \/ r.v_from = v2 /\ r.v_to = v1}

\* Python values that a set of vertexes can hold: the integer v, and the
\* result row (v,) of a one-column query.
PyInt(v) == [type |-> "int", val |-> v]
PyRow(v) == [type |-> "Row", val |-> v]

\* all_vertexes: query(EdgeSQL.v_from).distinct().all() and the same for
\* v_to return lists of result rows, and the set is built from those rows
\* as they are.
all_vertexes(S) ==
    LET all_froms == {PyRow(r.v_from) : r \in S.e}
        all_tos == {PyRow(r.v_to) : r \in S.e}
    IN  all_froms \cup all_tos

count_nodes(S) == Cardinality(all_vertexes(S))

count_edges(S) == Cardinality(S.e)

\* nodes_related_to_group without its elif branch.
nodes_related_first_branch(S, vs) ==
    LET edges == {r \in S.e : r.v_from \in vs \/ r.v_to \in vs}
    IN  {r.v_from : r \in {x \in edges : x.v_from \notin vs}}

\* nodes_related_to_group: one query for the edges with an endpoint in vs,
\* then of each edge v_from when it is outside vs, else v_to when it is.
nodes_related_to_group(S, vs) ==
    LET edges == {r \in S.e : r.v_from \in vs \/ r.v_to \in vs}
    IN  {r.v_from : r \in {x \in edges : x.v_from \notin vs}}
        \cup {r.v_to : r \in {x \in edges : x.v_from \in vs /\ x.v_to \notin vs}}

\* A list of ORM objects is modelled as the bag of its elements (a query
\* without an ORDER BY fixes no order); a SELECT over one table yields
\* every row that passes the filter once.
\* edges_from: filter_by(v_from=v).all().
edges_from(S, v) == SetToBag({r \in S.e : r.v_from = v})

\* edges_to: filter_by(v_to=v).all().
edges_to(S, v) == SetToBag({r \in S.e : r.v_to = v})

\* edges_related as the list edges_from(v) + edges_to(v).
edges_related_concatenated(S, v) == edges_from(S, v) (+) edges_to(S, v)

\* edges_related: filter(or_(v_from == v, v_to == v)).all(), one SELECT.
edges_related(S, v) == SetToBag({r \in S.e : r.v_from = v \/ r.v_to = v})

\* The values of an SQL aggregate as Python gets them: NULL is None.
PyNone == [type |-> "NoneType", val |-> 0]
PyNumber(x) == [type |-> "number", val |-> x]

RECURSIVE sum_weight(_)
sum_weight(T) ==
    IF T = {} THEN 0
    ELSE LET r == CHOOSE x \in T : TRUE IN r.weight + sum_weight(T \ {r})

\* query(func.count(weight), func.sum(weight)).filter(...).first(): the
\* one row of an aggregate query.  COUNT over no row is 0 and SUM over no
\* row is NULL.
count_and_sum(T) ==
    <<Cardinality(T), IF T = {} THEN PyNone ELSE PyNumber(sum_weight(T))>>

count_related(S, v) == count_and_sum({r \in S.e : r.v_from = v \/ r.v_to = v})

count_followers(S, v) == count_and_sum({r \in S.e : r.v_to = v})

count_following(S, v) == count_and_sum({r \in S.e : r.v_from = v})

\* -------------------------------------------------------- modifications
\* insert_edge: convert, merge, commit; nothing catches an exception and
\* nothing is returned.
insert_edge(S, e, f) ==
    LET c == to_sql(e, "EdgeSQL") IN
    IF ~c.ok THEN Out(S, Raised("KeyError"))
    ELSE IF S.inactive THEN Out(S, Raised("InvalidRequestError"))
    ELSE LET d == do_commit(merge(S, c.obj), f, 1) IN
         IF d.ok THEN Out(d.S, Returned("None"))
         ELSE Out(d.S, Raised(d.error))

\* remove_edge deleting the pair in both directions.
remove_edge_either_direction(S, e, f) ==
    LET kept == IF "_id" \in e.keys
                THEN {r \in S.e : r._id # e._id}
                ELSE {r \in S.e : ~((r.v_from = e.v_from /\ r.v_to = e.v_to)
                                      \/ (r.v_from = e.v_to /\ r.v_to = e.v_from))}
    IN  IF S.inactive THEN Out(S, Raised("InvalidRequestError"))
        ELSE LET d == do_commit([S EXCEPT !.e = kept], f, 1) IN
             IF d.ok THEN Out(d.S, Returned("None"))
             ELSE Out(d.S, Raised(d.error))

\* remove_edge: DELETE by _id when the record has the key, by (v_from,
\* v_to) otherwise, then commit; nothing catches an exception.
remove_edge(S, e, f) ==
    LET kept == IF "_id" \in e.keys
                THEN {r \in S.e : r._id # e._id}
                ELSE {r \in S.e : ~(r.v_from = e.v_from /\ r.v_to = e.v_to)}
    IN  IF S.inactive THEN Out(S, Raised("InvalidRequestError"))
        ELSE LET d == do_commit([S EXCEPT !.e = kept], f, 1) IN
             IF d.ok THEN Out(d.S, Returned("None"))
             ELSE Out(d.S, Raised(d.error))

\* remove_node deleting the outgoing edges only.
remove_node_from_only(S, v, f) ==
    LET gone == {r \in S.e : r.v_from = v}
        d == do_commit([S EXCEPT !.e = S.e \ gone], f, 1)
    IN  IF d.ok THEN Out(d.S, Returned(Cardinality(gone)))
        ELSE Out(rollback(d.S), Returned(0))

\* remove_node: the bulk DELETE and the commit are inside the try; any
\* exception, that of an inactive session included, is answered with a
\* rollback and 0.
remove_node(S, v, f) ==
    LET gone == {r \in S.e : Touches(r, v)}
        d == do_commit([S EXCEPT !.e = S.e \ gone], f, 1)
    IN  IF d.ok THEN Out(d.S, Returned(Cardinality(gone)))
        ELSE Out(rollback(d.S), Returned(0))

\* remove_all leaving new_edges alone.
remove_all_primary_only(S, f) ==
    LET count == Cardinality(S.e)
        d == do_commit([S EXCEPT !.e = {}], f, 1)
    IN  IF d.ok THEN Out(d.S, Returned(count))
        ELSE Out(rollback(d.S), Returned("None"))

\* remove_all: as remove_node, over both tables; the except branch has no
\* return statement and the call returns None.
remove_all(S, f) ==
    LET count == Cardinality(S.e) + Cardinality(S.n)
        d == do_commit([S EXCEPT !.e = {}, !.n = {}], f, 1)
    IN  IF d.ok THEN Out(d.S, Returned(count))
        ELSE Out(rollback(d.S), Returned("None"))

\* insert_edges: every record is converted and merged, then one commit; a
\* refused commit is swallowed and answered with 0, without a rollback.
\* `at` is the number of this commit within the calling operation.
RECURSIVE merge_all(_, _)
merge_all(S, es) ==
    IF es = <<>> THEN [S |-> S, ok |-> TRUE, error |-> "none"]
    ELSE LET c == to_sql(Head(es), "EdgeSQL") IN
         IF ~c.ok THEN [S |-> S, ok |-> FALSE, error |-> "KeyError"]
         ELSE IF S.inactive THEN [S |-> S, ok |-> FALSE, error |-> "InvalidRequestError"]
         ELSE merge_all(merge(S, c.obj), Tail(es))

insert_edges(S, es, f, at) ==
    LET m == merge_all(S, es) IN
    IF ~m.ok THEN Out(m.S, Raised(m.error))
    ELSE LET d == do_commit(m.S, f, at) IN
         IF d.ok THEN Out(d.S, Returned(Len(es)))
         ELSE Out(d.S, Returned(0))

\* __max_batch_size__, scaled down from 5000.
max_batch_size == 2

Min(a, b) == IF a < b THEN a ELSE b

\* chunks(yield_edges_from(path), chunk_len): the number of chunks of a
\* dump of n records.
chunk_count(n) == (n + max_batch_size - 1) \div max_batch_size

\* insert_table: the REPLACE INTO statement is built as `migration`, and
\* the statement executed is `step`, a name nothing defines: the call
\* raises NameError before anything reaches the database.
insert_table(S, source_name) == [S |-> S, ok |-> FALSE, error |-> "NameError"]

\* flush_temporary_table: DELETE FROM new_edges, then commit.
flush_temporary_table(S, f, at) ==
    IF S.inactive THEN Out(S, Raised("InvalidRequestError"))
    ELSE LET d == do_commit([S EXCEPT !.n = {}], f, at) IN
         IF d.ok THEN Out(d.S, Returned("None"))
         ELSE Out(d.S, Raised(d.error))

\* The loop of insert_dump over the chunks: each chunk is converted whole
\* by _to_sql with its default e_type (EdgeSQL) and handed to
\* insert_edges.  k is the number of the chunk, which is also the number
\* of its commit.
RECURSIVE stage_chunks(_, _, _, _)
stage_chunks(S, rest, f, k) ==
    IF rest = <<>> THEN [S |-> S, ok |-> TRUE, error |-> "none"]
    ELSE LET n == Min(max_batch_size, Len(rest))
             chunk == SubSeq(rest, 1, n)
             cs == [i \in 1..n |-> to_sql(chunk[i], "EdgeSQL")]
         IN  IF \E i \in 1..n : ~cs[i].ok
             THEN [S |-> S, ok |-> FALSE, error |-> "KeyError"]
             ELSE LET r == insert_edges(S, [i \in 1..n |-> cs[i].obj], f, k) IN
                  IF r.ret.status = "raised"
                  THEN [S |-> r.S, ok |-> FALSE, error |-> r.ret.value]
                  ELSE stage_chunks(r.S, SubSeq(rest, n + 1, Len(rest)), f, k + 1)

\* insert_dump: count, stage the chunks, commit, insert_table,
\* flush_temporary_table, return the difference of the counts; any
\* exception on the way is printed and answered with a rollback and 0.
insert_dump(S, dump, f) ==
    LET cnt == count_edges(S)
        nc == chunk_count(Len(dump))
        st == stage_chunks(S, dump, f, 1)
    IN  IF S.inactive THEN Caught(S, "InvalidRequestError")
        ELSE IF ~st.ok THEN Caught(st.S, st.error)
        ELSE LET d == do_commit(st.S, f, nc + 1) IN
             IF ~d.ok THEN Caught(d.S, d.error)
             ELSE LET t == insert_table(d.S, "new_edges") IN
                  IF ~t.ok THEN Caught(t.S, t.error)
                  ELSE LET fl == flush_temporary_table(t.S, f, nc + 2) IN
                       IF fl.ret.status = "raised" THEN Caught(fl.S, fl.ret.value)
                       ELSE Out(fl.S, Returned(count_edges(fl.S) - cnt))

\* ---------------------------------------------------------------- inputs
InsertArgs == EdgeSQLs \cup EdgeNews \cup DictsWithId \cup Malformed

RemoveArgs == {e \in DictsWithId \cup DictsNoId : e.weight = 1}

BatchRecords == {e \in EdgeSQLs : e.v_from = 1 /\ e.weight = 1}
                \cup {e \in DictsWithId : e._id = 1 /\ e.v_from = 1 /\ e.v_to = 1 /\ e.weight = 1}
                \cup Malformed

DumpRecords == {e \in DictsWithId : e.v_from = 1 /\ e.v_to = MaxVertex /\ e.weight = 1}
               \cup Malformed

SeqsUpTo(X, n) == UNION {[1..k -> X] : k \in 0..n}

MaxDump == 3

\* --------------------------------------------------------------- actions
InsertEdge ==
    \E e \in InsertArgs, f \in Faults(1) :
        Apply("insert_edge", e, f, insert_edge(Store, e, f))

RemoveEdge ==
    \E e \in RemoveArgs, f \in Faults(1) :
        Apply("remove_edge", e, f, remove_edge(Store, e, f))

InsertEdges ==
    \E es \in SeqsUpTo(BatchRecords, MaxBatch), f \in Faults(1) :
        Apply("insert_edges", es, f, insert_edges(Store, es, f, 1))

RemoveNode ==
    \E v \in Vertices, f \in Faults(1) :
        Apply("remove_node", v, f, remove_node(Store, v, f))

RemoveAll ==
    \E f \in Faults(1) :
        Apply("remove_all", <<>>, f, remove_all(Store, f))

InsertDump ==
    \E dump \in SeqsUpTo(DumpRecords, MaxDump) :
        \E f \in Faults(chunk_count(Len(dump)) + 1) :
            Apply("insert_dump", dump, f, insert_dump(Store, dump, f))

FlushTemporaryTable ==
    \E f \in Faults(1) :
        Apply("flush_temporary_table", <<>>, f, flush_temporary_table(Store, f, 1))

\* A read: the query raises on an inactive session, and changes nothing.
Query(S, value) ==
    IF S.inactive THEN Out(S, Raised("InvalidRequestError"))
    ELSE Out(S, Returned(value))

FindEdge ==
    \E a \in Vertices, b \in Vertices :
        \E r \in find_edge(Store, a, b) :
            Apply("find_edge", <<a, b>>, NoFault, Query(Store, r))

FindEdgeOrInv ==
    \E a \in Vertices, b \in Vertices :
        Apply("find_edge_or_inv", <<a, b>>, NoFault,
              Query(Store, find_edge_or_inv(Store, a, b)))

AllVertexes ==
    Apply("all_vertexes", <<>>, NoFault, Query(Store, all_vertexes(Store)))

CountNodes ==
    Apply("count_nodes", <<>>, NoFault, Query(Store, count_nodes(Store)))

CountEdges ==
    Apply("count_edges", <<>>, NoFault, Query(Store, count_edges(Store)))

NodesRelatedToGroup ==
    \E vs \in SUBSET Vertices :
        Apply("nodes_related_to_group", vs, NoFault,
              Query(Store, nodes_related_to_group(Store, vs)))

EdgesFrom ==
    \E v \in Vertices :
        Apply("edges_from", v, NoFault, Query(Store, edges_from(Store, v)))

EdgesTo ==
    \E v \in Vertices :
        Apply("edges_to", v, NoFault, Query(Store, edges_to(Store, v)))

EdgesRelated ==
    \E v \in Vertices :
        Apply("edges_related", v, NoFault, Query(Store, edges_related(Store, v)))

CountRelated ==
    \E v \in Vertices :
        Apply("count_related", v, NoFault, Query(Store, count_related(Store, v)))

CountFollowers ==
    \E v \in Vertices :
        Apply("count_followers", v, NoFault, Query(Store, count_followers(Store, v)))

CountFollowing ==
    \E v \in Vertices :
        Apply("count_following", v, NoFault, Query(Store, count_following(Store, v)))

\* The caller takes the outcome; the store is ready for the next call.
Return ==
    /\ op # "idle"
    /\ op' = "idle"
    /\ arg' = <<>>
    /\ fault' = NoFault
    /\ ret' = Returned("None")
    /\ printed' = "none"
    /\ pre' = EmptyStore
    /\ UNCHANGED <<table_edges, new_edges, sess_edges, sess_new, sess_inactive, pragmas>>

Next ==
    \/ Return
    \/ InsertEdge
    \/ RemoveEdge
    \/ InsertEdges
    \/ RemoveNode
    \/ RemoveAll
    \/ InsertDump
    \/ FlushTemporaryTable
    \/ FindEdge
    \/ FindEdgeOrInv
    \/ AllVertexes
    \/ CountNodes
    \/ CountEdges
    \/ NodesRelatedToGroup
    \/ EdgesFrom
    \/ EdgesTo
    \/ EdgesRelated
    \/ CountRelated
    \/ CountFollowers
    \/ CountFollowing

Spec == Init /\ [][Next]_vars

\* ------------------------------------------------- the reads on any table
\* The tables of rows with one row for each identifier they hold: every
\* such table is the primary table after insert_edge of its rows as
\* EdgeSQL objects.
Tables ==
    UNION {{{Row(i, c[i][1], c[i][2], c[i][3]) : i \in D} :
               c \in [D -> Vertices \X Vertices \X Weights]} : D \in SUBSET IDs}

\* A store whose primary table is any such table, committed, with the
\* session active or left inactive by a refused commit.
InitQuery ==
    /\ table_edges \in Tables
    /\ new_edges = {}
    /\ sess_edges = table_edges
    /\ sess_new = {}
    /\ sess_inactive \in BOOLEAN
    /\ op = "idle"
    /\ arg = <<>>
    /\ fault = NoFault
    /\ ret = Returned("None")
    /\ printed = "none"
    /\ pre = EmptyStore
    /\ pragmas = 0

NextQuery ==
    \/ Return
    \/ FindEdge
    \/ FindEdgeOrInv
    \/ AllVertexes
    \/ CountNodes
    \/ CountEdges
    \/ NodesRelatedToGroup
    \/ EdgesFrom
    \/ EdgesTo
    \/ EdgesRelated
    \/ CountRelated
    \/ CountFollowers
    \/ CountFollowing

SpecQuery == InitQuery /\ [][NextQuery]_vars

\* ------------------------------------------- SQLite: opening the storage
MaxPragmas == 3

\* PlainSQL.__init__ on a storage that exists: a new session on the
\* committed tables (create_all leaves existing tables as they are).
new_session(S) == [S EXCEPT !.e = S.db_e, !.n = S.db_n, !.inactive = FALSE]

\* set_pragmas_on_first_launch: return when count_edges() > 0, else
\* execute the pragmas.  n is the number of times they were applied
\* before.
set_pragmas_on_first_launch(S, n) == IF count_edges(S) > 0 THEN n ELSE n + 1

\* SQLite.__init__(url) on the storage of this store.
Open ==
    LET S == new_session(Store)
        n == set_pragmas_on_first_launch(S, pragmas)
    IN  /\ op = "idle"
        /\ n <= MaxPragmas
        /\ pre' = Store
        /\ op' = "open"
        /\ arg' = <<>>
        /\ fault' = NoFault
        /\ ret' = Returned("None")
        /\ printed' = "none"
        /\ table_edges' = S.db_e
        /\ new_edges' = S.db_n
        /\ sess_edges' = S.e
        /\ sess_new' = S.n
        /\ sess_inactive' = S.inactive
        /\ pragmas' = n

\* The first SQLite(url), on a storage that did not exist.
InitOpen ==
    /\ table_edges = {}
    /\ new_edges = {}
    /\ sess_edges = {}
    /\ sess_new = {}
    /\ sess_inactive = FALSE
    /\ op = "idle"
    /\ arg = <<>>
    /\ fault = NoFault
    /\ ret = Returned("None")
    /\ printed = "none"
    /\ pre = EmptyStore
    /\ pragmas = set_pragmas_on_first_launch(EmptyStore, 0)

NextOpen ==
    \/ Return
    \/ Open
    \/ InsertEdge
    \/ RemoveEdge
    \/ RemoveNode
    \/ RemoveAll
    \/ CountEdges

SpecOpen == InitOpen /\ [][NextOpen]_vars

\* ------------------------------------------------------------ properties
\* The row a caller's record stands for, under the identifier it carries.
RowOf(e) == Row(e._id, e.v_from, e.v_to, e.weight)

\* The records of a sequence that no later record of the same identifier
\* overrides.
Last(es) == {i \in 1..Len(es) : \A j \in (i + 1)..Len(es) : es[j]._id # es[i]._id}

\* The call met a failure: it raised, its commit was refused, or the
\* session was inactive when it was made.
CallFailed == ret.status = "raised" \/ fault.commit = "refused" \/ pre.inactive

\* C1: insert_edges(batch) is all-or-nothing: after a failure (a record
\* that cannot be converted, a refused commit) count_edges() and the
\* content of the primary table are what they were before the call; on
\* success every edge of the batch is in the primary table and the call
\* returns the number of edges of the batch.
C1_InsertEdgesAllOrNothing ==
    op = "insert_edges" =>
        IF CallFailed
        THEN /\ sess_edges = pre.e
             /\ Cardinality(sess_edges) = Cardinality(pre.e)
        ELSE /\ ret.value = Len(arg)
             /\ \A i \in Last(arg) : RowOf(arg[i]) \in sess_edges

\* C2: whenever insert_dump meets a failure at any stage (it prints the
\* exception it caught), it returns 0 and the primary table is exactly
\* what it was before the call.
C2_InsertDumpAllOrNothing ==
    (op = "insert_dump" /\ printed # "none") =>
        /\ ret = Returned(0)
        /\ sess_edges = pre.e
        /\ table_edges = pre.db_e

\* C3: for a dump of well-formed records and with no storage failure,
\* insert_dump returns count_edges() after minus count_edges() before,
\* which is the number of distinct identifiers of the dump that the
\* primary table did not hold; afterwards every edge of the dump is in the
\* primary table, replacing the edge that had its identifier.
C3_InsertDumpNetEffect ==
    (/\ op = "insert_dump"
     /\ \A i \in 1..Len(arg) : WellFormed(arg[i])
     /\ fault = NoFault
     /\ ~pre.inactive) =>
        /\ ret.value = Cardinality(sess_edges) - Cardinality(pre.e)
        /\ ret.value = Cardinality({arg[i]._id : i \in 1..Len(arg)}
                                   \ {r._id : r \in pre.e})
        /\ \A i \in Last(arg) : RowOf(arg[i]) \in sess_edges

\* C4: insert_edge is an upsert by identifier: the primary table never
\* holds two edges of one identifier; inserting an edge whose identifier
\* the table holds replaces that edge (count_edges() unchanged, the new
\* weight stored); inserting an edge the table already holds leaves the
\* table as it was.
C4_InsertEdgeUpsertById ==
    /\ \A r1, r2 \in sess_edges : r1._id = r2._id => r1 = r2
    /\ (/\ op = "insert_edge"
        /\ ret.status = "returned"
        /\ arg.cls # "EdgeNew") =>
            /\ (\E r \in pre.e : r._id = arg._id) =>
                   /\ Cardinality(sess_edges) = Cardinality(pre.e)
                   /\ \A r \in sess_edges : r._id = arg._id => r.weight = arg.weight
            /\ RowOf(arg) \in pre.e => sess_edges = pre.e

\* C5: after remove_node(v) succeeds no edge of the primary table touches
\* v, every other edge is there unchanged and the count returned is the
\* number of edges removed (a self-loop on v is one edge); when the
\* deletion fails the transaction is rolled back, 0 is returned and the
\* committed table has lost no edge.
C5_RemoveNode ==
    op = "remove_node" =>
        LET gone == {r \in pre.e : Touches(r, arg)} IN
        /\ ret.status = "returned"
        /\ IF fault.commit = "refused" \/ pre.inactive
           THEN /\ ret.value = 0
                /\ ~sess_inactive
                /\ table_edges = pre.db_e
                /\ sess_edges = table_edges
           ELSE /\ ret.value = Cardinality(gone)
                /\ \A r \in sess_edges : ~Touches(r, arg)
                /\ \A r \in pre.e : ~Touches(r, arg) => r \in sess_edges
                /\ sess_edges \subseteq pre.e
                /\ table_edges = sess_edges

C5_Witness ==
    /\ op = "remove_node"
    /\ fault = NoFault
    /\ ret = Returned(1)
    /\ \E r \in pre.e : r.v_from = arg /\ r.v_to = arg
    /\ sess_edges # {}

\* C6: after remove_all() returns successfully count_edges() is 0,
\* all_vertexes() is empty and the staging table is empty, and the value
\* returned is the number of rows the primary table held plus the number
\* the staging table held.
C6_RemoveAll ==
    (op = "remove_all" /\ fault = NoFault /\ ~pre.inactive) =>
        /\ count_edges(Store) = 0
        /\ all_vertexes(Store) = {}
        /\ sess_new = {}
        /\ table_edges = {}
        /\ new_edges = {}
        /\ ret = Returned(Cardinality(pre.e) + Cardinality(pre.n))

C6_Witness ==
    /\ op = "remove_all"
    /\ fault = NoFault
    /\ ~pre.inactive
    /\ Cardinality(pre.e) = 2
    /\ pre.n # {}
    /\ ret = Returned(3)

\* C7: remove_edge(e) deletes by identifier when e carries one and by the
\* exact directed pair (from, to) otherwise: the inverse edge and every
\* edge of another identifier, or of another pair, stay in the table
\* unchanged; when no row matches the call completes without an error and
\* the table is unchanged.
C7_RemoveEdgeFrame ==
    (op = "remove_edge" /\ fault = NoFault /\ ~pre.inactive) =>
        LET hit(r) == IF "_id" \in arg.keys
                      THEN r._id = arg._id
                      ELSE r.v_from = arg.v_from /\ r.v_to = arg.v_to
        IN  /\ ret.status = "returned"
            /\ sess_edges \subseteq pre.e
            /\ \A r \in pre.e : ~hit(r) => r \in sess_edges
            /\ \A r \in sess_edges : ~hit(r)
            /\ (\A r \in pre.e : ~hit(r)) => sess_edges = pre.e
            /\ sess_new = pre.n

C7_Witness ==
    /\ op = "remove_edge"
    /\ fault = NoFault
    /\ "_id" \notin arg.keys
    /\ arg.v_from # arg.v_to
    /\ \E r \in pre.e : r.v_from = arg.v_from /\ r.v_to = arg.v_to
    /\ \E r \in sess_edges : r.v_from = arg.v_to /\ r.v_to = arg.v_from
    /\ ret.status = "returned"

\* C8: nodes_related_to_group(V) returns exactly the vertexes that are not
\* in V and are an endpoint of an edge whose other endpoint is in V.
C8_Frontier ==
    (op = "nodes_related_to_group" /\ ret.status = "returned") =>
        ret.value = {v \in Vertices \ arg :
                        \E r \in sess_edges : \/ r.v_from = v /\ r.v_to \in arg
                                              \/ r.v_to = v /\ r.v_from \in arg}

C8_Witness ==
    /\ op = "nodes_related_to_group"
    /\ ret.status = "returned"
    /\ ret.value # {}
    /\ \E r \in sess_edges : r.v_from \in arg /\ r.v_to \in arg
    /\ \E r \in sess_edges : r.v_from \in arg /\ r.v_to \notin arg

\* C9: all_vertexes() is the set of the vertex identifiers that are the
\* from or the to of an edge of the primary table, and count_nodes() is
\* the size of that set.
C9_VertexDerivation ==
    LET derived == {r.v_from : r \in sess_edges} \cup {r.v_to : r \in sess_edges} IN
    /\ (op = "all_vertexes" /\ ret.status = "returned") =>
           ret.value = {PyInt(v) : v \in derived}
    /\ (op = "count_nodes" /\ ret.status = "returned") =>
           ret.value = Cardinality(derived)

\* C10: find_edge(a, b) returns an edge from a to b when the table holds
\* one and None otherwise; find_edge_or_inv(a, b) returns the edges from a
\* to b and from b to a, and no other.
C10_Directed ==
    /\ (op = "find_edge" /\ ret.status = "returned") =>
           LET m == {r \in sess_edges : r.v_from = arg[1] /\ r.v_to = arg[2]} IN
           IF m = {} THEN ret.value = {} ELSE \E r \in m : ret.value = {r}
    /\ (op = "find_edge_or_inv" /\ ret.status = "returned") =>
           ret.value = {r \in sess_edges :
                           \/ r.v_from = arg[1] /\ r.v_to = arg[2]
                           \/ r.v_from = arg[2] /\ r.v_to = arg[1]}

C10_Witness ==
    /\ op = "find_edge"
    /\ arg[1] # arg[2]
    /\ ret = Returned({})
    /\ \E r \in sess_edges : r.v_from = arg[2] /\ r.v_to = arg[1]

\* C11: count_following(v), count_followers(v) and count_related(v) each
\* return the pair (number of matching edges, sum of their weights), where
\* an edge matches when from = v, to = v, from = v or to = v respectively
\* (a self-loop counts once in count_related); for a vertex with no
\* matching edge the pair is (0, 0).
C11_Aggregates ==
    LET pair(T) == <<Cardinality(T), PyNumber(sum_weight(T))>> IN
    /\ (op = "count_following" /\ ret.status = "returned") =>
           ret.value = pair({r \in sess_edges : r.v_from = arg})
    /\ (op = "count_followers" /\ ret.status = "returned") =>
           ret.value = pair({r \in sess_edges : r.v_to = arg})
    /\ (op = "count_related" /\ ret.status = "returned") =>
           ret.value = pair({r \in sess_edges : r.v_from = arg \/ r.v_to = arg})

\* C12: edges_from(v) returns exactly the edges with from = v, edges_to(v)
\* exactly those with to = v, and edges_related(v) exactly the edges of
\* either kind, each listed once (a self-loop on v appears once).
C12_Incident ==
    /\ (op = "edges_from" /\ ret.status = "returned") =>
           ret.value = SetToBag({r \in sess_edges : r.v_from = arg})
    /\ (op = "edges_to" /\ ret.status = "returned") =>
           ret.value = SetToBag({r \in sess_edges : r.v_to = arg})
    /\ (op = "edges_related" /\ ret.status = "returned") =>
           /\ BagToSet(ret.value) = {r \in sess_edges : r.v_from = arg \/ r.v_to = arg}
           /\ \A r \in BagToSet(ret.value) : CopiesIn(r, ret.value) = 1

C12_Witness ==
    /\ op = "edges_related"
    /\ ret.status = "returned"
    /\ \E r \in sess_edges : r.v_from = arg /\ r.v_to = arg
    /\ \E r \in sess_edges : r.v_from # arg /\ r.v_to = arg
    /\ BagCardinality(ret.value) = 2

\* C13: over any sequence of opening, mutating and re-opening a store on
\* the same storage the pragmas are applied exactly once, at the first
\* open of the empty store: never on the open of a populated store and
\* never a second time on a later open, the table being still empty or
\* empty again after remove_all included.
C13_PragmasOnce == pragmas <= 1

\* C14: a storage failure (a refused commit) during insert_edge or
\* remove_edge is surfaced as rollback plus an empty result: the
\* transaction is rolled back, the operation returns to the caller without
\* raising the storage error, and the primary table is what it was before
\* the call.
C14_StorageFailureSurfaced ==
    (/\ op \in {"insert_edge", "remove_edge"}
     /\ WellFormed(arg)
     /\ fault.commit = "refused"
     /\ ~pre.inactive) =>
        /\ ret.status = "returned"
        /\ ~sess_inactive
        /\ sess_edges = table_edges
        /\ table_edges = pre.db_e

\* C15: a malformed edge record (one that lacks from, to or weight) is
\* never swallowed: insert_edge, insert_edges and insert_dump alike raise
\* an error to the caller when they receive one, and return no normal
\* result.
C15_MalformedFailsFast ==
    /\ (op = "insert_edge" /\ ~WellFormed(arg)) => ret.status = "raised"
    /\ (/\ op \in {"insert_edges", "insert_dump"}
        /\ \E i \in 1..Len(arg) : ~WellFormed(arg[i])) => ret.status = "raised"

\* C16: during insert_dump the edges of every chunk are written to the
\* staging table and not to the primary table: when all chunks have been
\* staged, which is before the merge step, the primary table is what it
\* was at the start of the call and the staging table holds the edges of
\* the dump.
C16_ChunksStaged ==
    (/\ op = "insert_dump"
     /\ ~pre.inactive
     /\ fault = NoFault
     /\ \A i \in 1..Len(arg) : WellFormed(arg[i])) =>
        LET staged == stage_chunks(pre, arg, fault, 1).S IN
        /\ staged.e = pre.e
        /\ staged.db_e = pre.db_e
        /\ \A i \in 1..Len(arg) :
               \E r \in staged.n : /\ r.v_from = arg[i].v_from
                                   /\ r.v_to = arg[i].v_to
                                   /\ r.weight = arg[i].weight

C18_NoPendingChange ==
    op \in {"insert_edge", "remove_edge", "insert_edges", "remove_node",
            "remove_all", "insert_dump", "flush_temporary_table"} =>
        /\ sess_edges = table_edges
        /\ sess_new = new_edges

====
